---- MODULE Spec2Model ----
(***************************************************************************)
(* State-machine model of mne/source_tfr.py (class SourceTFR) and of the   *)
(* text readers of mne/io/curry/curry.py.                                  *)
(*                                                                         *)
(* Arrays are records [tag, shape, val]: shape is the tuple of axis        *)
(* lengths and val maps every 0-based index tuple to an integer.  Times    *)
(* are integers (ticks); a sample rate is the reciprocal of a step.        *)
(***************************************************************************)
EXTENDS Integers, Sequences, FiniteSets, TLC

VARIABLES
  alive,          \* TRUE once SourceTFR.__init__ has returned an object
  data,           \* self._data
  kernel,         \* self._kernel
  sens_data,      \* self._sens_data
  kernel_removed, \* self._kernel_removed
  vertices,       \* self.vertices
  dims,           \* self.dims
  tmin,           \* self._tmin
  tstep,          \* self._tstep
  times,          \* self._times
  exc,            \* the exception the last operation raised, "none" otherwise
  args,           \* the arguments handed to the constructor (SpecInit)
  \* read_raw_curry and _read_curry_info (SpecCurry)
  cpc,            \* position in read_raw_curry
  input_fname,    \* the file name given, as its dot-separated segments
  exists,         \* the files on disk
  pfile,          \* the lines of the parameter file
  opened,         \* the files opened so far, in order
  pos,            \* the next line of the parameter file
  param_dict,     \* param_dict
  unit_dict,      \* unit_dict
  locals,         \* the converted parameters of _read_curry_info
  cinfo,          \* what the parameter stage returned
  raw,            \* the RawCurry object
  cexc,           \* the exception read_raw_curry raised
  \* _read_curry_lines (SpecLines)
  lines,          \* the lines read so far
  save_lines,     \* save_lines
  data_dict,      \* data_dict
  \* _read_curry_info, the channel assembly (SpecChans)
  apc,            \* position in the assembly
  label_file,     \* the lines of the label file
  labels,         \* labels
  sensors,        \* sensors
  akey,           \* the position of "for key in ..."
  aind,           \* ind of "for ind, chan in enumerate(...)"
  all_chans,      \* all_chans
  chs,            \* info["chs"]
  aexc            \* the exception the assembly raised

stfrVars == <<alive, data, kernel, sens_data, kernel_removed, vertices, dims,
              tmin, tstep, times, exc, args>>

curryVars == <<cpc, input_fname, exists, pfile, opened, pos, param_dict,
               unit_dict, locals, cinfo, raw, cexc>>

linesVars == <<lines, save_lines, data_dict>>

chanVars == <<apc, label_file, labels, sensors, akey, aind, all_chans, chs,
              aexc>>

vars == <<stfrVars, curryVars, linesVars, chanVars>>

None == [tag |-> "None"]

EmptyDict == [k \in {} |-> None]

NoException == [type |-> "none", at |-> "", file |-> <<>>, beside |-> <<>>,
                var |-> ""]

\* read_raw_curry has not been called
NoCurry ==
  /\ cpc = "idle"
  /\ input_fname = <<>>
  /\ exists = {}
  /\ pfile = <<>>
  /\ opened = <<>>
  /\ pos = 0
  /\ param_dict = EmptyDict
  /\ unit_dict = EmptyDict
  /\ locals = None
  /\ cinfo = None
  /\ raw = None
  /\ cexc = NoException

\* _read_curry_lines has not been called
NoLines ==
  /\ lines = <<>>
  /\ save_lines = EmptyDict
  /\ data_dict = EmptyDict

\* the channel assembly has not begun
NoChans ==
  /\ apc = "idle"
  /\ label_file = <<>>
  /\ labels = EmptyDict
  /\ sensors = EmptyDict
  /\ akey = 0
  /\ aind = 0
  /\ all_chans = <<>>
  /\ chs = <<>>
  /\ aexc = "none"

----------------------------------------------------------------------------
(* Bounds of the model *)

\* most vertices (and most sensors of a kernel)
MaxVerts == 2

\* most samples on the time axis
MaxTimes == 3

\* largest time step, in ticks
MaxStep == 2

MaxSens == MaxVerts

\* latest first time a container is followed to
MaxTmin == MaxStep

----------------------------------------------------------------------------
(* numpy arrays *)

RECURSIVE Indices(_)
Indices(sh) ==
  IF sh = <<>> THEN {<<>>}
  ELSE {<<i>> \o r : i \in 0..(Head(sh) - 1), r \in Indices(Tail(sh))}

ndarray(sh, f) == [tag |-> "ndarray", shape |-> sh, val |-> f]

ndim(a) == Len(a.shape)

Last(s) == s[Len(s)]

Front(s) == SubSeq(s, 1, Len(s) - 1)

RECURSIVE SumSeq(_)
SumSeq(s) == IF s = <<>> THEN 0 ELSE Head(s) + SumSeq(Tail(s))

\* sum of f[i] for i in lo..hi
RECURSIVE SumTo(_, _, _)
SumTo(f, lo, hi) == IF hi < lo THEN 0 ELSE f[hi] + SumTo(f, lo, hi - 1)

\* np.tensordot(k, s, axes=([-1], [0])): contraction of k's last axis with
\* s's first axis.
tensordot(k, s) ==
  LET n == Last(k.shape)
      sh == Front(k.shape) \o Tail(s.shape)
      lead == Len(k.shape) - 1
  IN ndarray(sh,
       [idx \in Indices(sh) |->
          SumTo([j \in 0..(n - 1) |->
                   k.val[SubSeq(idx, 1, lead) \o <<j>>]
                   * s.val[<<j>> \o SubSeq(idx, lead + 1, Len(idx))]],
                0, n - 1)])

\* positions (1-based) at which a boolean mask is TRUE, in order
RECURSIVE Where(_)
Where(mask) ==
  IF mask = <<>> THEN <<>>
  ELSE LET r == Where(Front(mask))
       IN IF Last(mask) THEN Append(r, Len(mask)) ELSE r

\* a[..., mask]: boolean selection along the trailing axis
MaskLast(a, mask) ==
  LET keep == Where(mask)
      sh == Front(a.shape) \o <<Len(keep)>>
  IN ndarray(sh,
       [idx \in Indices(sh) |->
          a.val[Front(idx) \o <<keep[Last(idx) + 1] - 1>>]])

----------------------------------------------------------------------------
(* SourceTFR: the object is the record of its fields *)

valid_dims ==
  { <<"dipoles", "freqs", "times">>,
    <<"dipoles", "epochs", "freqs", "times">>,
    <<"dipoles", "orientations", "freqs", "times">>,
    <<"dipoles", "orientations", "epochs", "freqs", "times">> }

valid_methods ==
  { "morlet-power", "multitaper-power", "stockwell-power",
    "morlet-itc", "multitaper-itc", "stockwell-itc", "None" }

\* length an orientation axis must have
OriLen == 3

InSeq(x, s) == \E i \in 1..Len(s) : s[i] = x

Self == [alive |-> alive, data |-> data, kernel |-> kernel,
         sens_data |-> sens_data, kernel_removed |-> kernel_removed,
         vertices |-> vertices, dims |-> dims, tmin |-> tmin,
         tstep |-> tstep, times |-> times, exc |-> "none"]

NoObject == [alive |-> FALSE, data |-> None, kernel |-> None,
             sens_data |-> None, kernel_removed |-> FALSE,
             vertices |-> None, dims |-> <<>>, tmin |-> 0, tstep |-> 0,
             times |-> <<>>, exc |-> "none"]

Raise(o, e) == [o EXCEPT !.exc = e]

\* Vertices are records [kind, v]: v is the tuple of the per-source-space
\* arrays for a list and the one-element tuple of the array for an ndarray.
\* Total number of vertices: sum of the lengths for a list, the length for
\* an array
n_verts(v) ==
  IF v.kind = "list" THEN SumSeq([i \in 1..Len(v.v) |-> Len(v.v[i])])
  ELSE Len(v.v[1])

\* np.any(np.diff(v) <= 0)
Unordered(v) == \E i \in 1..(Len(v) - 1) : v[i + 1] - v[i] <= 0

shape_of_sens_data(o) ==
  IF o.data = None THEN o.sens_data.shape ELSE o.data.shape

shape(o) ==
  IF o.data = None
  THEN <<o.kernel.shape[1]>> \o Tail(o.sens_data.shape)
  ELSE o.data.shape

_update_times(o) ==
  [o EXCEPT !.times = [i \in 1..Last(shape(o)) |-> o.tmin + o.tstep * (i - 1)]]

remove_keeps_kernel(o) ==
  IF o.kernel # None \/ o.sens_data # None
  THEN [o EXCEPT !.kernel_removed = TRUE,
                 !.data = tensordot(o.kernel, o.sens_data),
                 !.sens_data = None]
  ELSE o

_remove_kernel_sens_data_(o) ==
  IF o.kernel # None \/ o.sens_data # None
  THEN [o EXCEPT !.kernel_removed = TRUE,
                 !.data = tensordot(o.kernel, o.sens_data),
                 !.kernel = None,
                 !.sens_data = None]
  ELSE o

data_get(o) ==
  IF o.data = None THEN _remove_kernel_sens_data_(o) ELSE o

data_set(o, value) ==
  IF o.data # None /\ ndim(value) # ndim(o.data) THEN Raise(o, "ValueError")
  ELSE IF o.vertices.kind \notin {"list", "ndarray"}
       THEN Raise(o, "ValueError")
  ELSE IF value.shape[1] # n_verts(o.vertices) THEN Raise(o, "ValueError")
  ELSE _update_times([o EXCEPT !.data = value])

tmin_set(o, value) == _update_times([o EXCEPT !.tmin = value])

tstep_set(o, value) ==
  IF value <= 0 THEN Raise(o, "ValueError")
  ELSE _update_times([o EXCEPT !.tstep = value])

\* _prepare_data, the checks of data=(kernel, sens_data); d is
\* [kind |-> "array", arr] or [kind |-> "tuple", items]
tuple_checks_no_ndim(d, dm) ==
  IF d.kind # "tuple" THEN "none"
  ELSE IF Len(d.items) # 2 THEN "ValueError:tuple"
  ELSE IF d.items[1].shape[2] # d.items[2].shape[1] THEN "ValueError:kernel"
  ELSE IF InSeq("orientations", dm) THEN "ValueError:orientations"
  ELSE "none"

tuple_checks(d, dm) ==
  IF d.kind # "tuple" THEN "none"
  ELSE IF Len(d.items) # 2 THEN "ValueError:tuple"
  ELSE IF d.items[1].shape[2] # d.items[2].shape[1] THEN "ValueError:kernel"
  ELSE IF ndim(d.items[2]) # Len(dm) THEN "ValueError:sens_ndim"
  ELSE IF InSeq("orientations", dm) THEN "ValueError:orientations"
  ELSE "none"

\* _prepare_data, the check of a list of vertex arrays
vertices_checks(v) ==
  IF v.kind = "list" /\ \E i \in 1..Len(v.v) : Unordered(v.v[i])
  THEN "ValueError:vertices" ELSE "none"

\* _prepare_data, the checks of dense data
dense_checks(dat, n_src, dm) ==
  IF dat = None THEN "none"
  ELSE IF dat.shape[1] # n_src THEN "ValueError:n_src"
  ELSE IF ndim(dat) # Len(dm) THEN "ValueError:ndim"
  ELSE IF InSeq("orientations", dm) /\ dat.shape[2] # OriLen
       THEN "ValueError:ori_len"
  ELSE "none"

\* _prepare_data(data, vertices, dims)
_prepare_data(d, v, dm) ==
  LET isTuple == d.kind = "tuple"
      tupleExc == tuple_checks(d, dm)
      vertExc == vertices_checks(v)
      dat == IF isTuple THEN None ELSE d.arr
      dataExc == dense_checks(dat, n_verts(v), dm)
      e == IF tupleExc # "none" THEN tupleExc
           ELSE IF vertExc # "none" THEN vertExc
           ELSE dataExc
  IN [exc |-> e,
      data |-> dat,
      kernel |-> IF isTuple /\ e = "none" THEN d.items[1] ELSE None,
      sens_data |-> IF isTuple /\ e = "none" THEN d.items[2] ELSE None,
      vertices |-> IF v.kind = "list" /\ Len(v.v) = 1
                   THEN [kind |-> "ndarray", v |-> v.v] ELSE v]

\* SourceTFR.__init__; a is the record of the arguments
SourceTFR_init(a) ==
  IF a.dims \notin valid_dims THEN Raise(NoObject, "ValueError:dims")
  ELSE IF a.method \notin valid_methods
       THEN Raise(NoObject, "ValueError:method")
  ELSE IF a.vertices.kind \notin {"list", "ndarray"}
       THEN Raise(NoObject, "TypeError:vertices")
  ELSE LET p == _prepare_data(a.data, a.vertices, a.dims)
       IN IF p.exc # "none" THEN Raise(NoObject, p.exc)
          ELSE _update_times(
                 [alive |-> TRUE, data |-> p.data, kernel |-> p.kernel,
                  sens_data |-> p.sens_data, kernel_removed |-> FALSE,
                  vertices |-> p.vertices, dims |-> a.dims,
                  tmin |-> a.tmin, tstep |-> a.tstep, times |-> <<>>,
                  exc |-> "none"])

\* mne.utils._time_mask(times, tmin, tmax): the samples whose time lies in
\* [tmin, tmax]; an unset end is the first (last) time.  lo and hi are
\* records [set, v].
_time_mask(t, lo, hi) ==
  LET a == IF lo.set THEN lo.v ELSE t[1]
      b == IF hi.set THEN hi.v ELSE t[Len(t)]
  IN [i \in 1..Len(t) |-> a <= t[i] /\ t[i] <= b]

crop(o, lo, hi) ==
  IF o.tstep = 0 THEN Raise(o, "ZeroDivisionError")
  ELSE IF o.times = <<>> THEN Raise(o, "ValueError:mask")
  ELSE
    LET mask == _time_mask(o.times, lo, hi)
    IN IF Where(mask) = <<>> THEN Raise(o, "ValueError:mask")
       ELSE
         LET o1 == tmin_set(o, o.times[Where(mask)[1]])
         IN IF o1.kernel # None /\ o1.sens_data # None
            THEN IF Len(mask) # Last(o1.sens_data.shape)
                 THEN Raise(o1, "IndexError")
                 ELSE [o1 EXCEPT !.sens_data = MaskLast(o1.sens_data, mask)]
            ELSE
              LET o2 == data_get(o1)
              IN IF Len(mask) # Last(o2.data.shape)
                 THEN Raise(o2, "IndexError")
                 ELSE data_set(o2, MaskLast(o2.data, mask))

\* int(round(a / b)) for a >= 0, b > 0 (ties to the even neighbour)
RoundDiv(a, b) ==
  LET q == a \div b
      r == a % b
  IN IF 2 * r < b THEN q
     ELSE IF 2 * r > b THEN q + 1
     ELSE IF q % 2 = 0 THEN q ELSE q + 1

\* length of the trailing axis after mne.filter.resample from step o_step to
\* step n_step (rates are the reciprocals)
resample_len(n, o_step, n_step) == RoundDiv(n * o_step, n_step)

\* mne.filter.resample(x, sfreq, o_sfreq): the trailing axis gets
\* resample_len samples, each taken from the nearest earlier input sample
filter_resample(x, o_step, n_step) ==
  LET n == Last(x.shape)
      m == resample_len(n, o_step, n_step)
      sh == Front(x.shape) \o <<m>>
  IN ndarray(sh,
       [idx \in Indices(sh) |->
          x.val[Front(idx) \o <<(Last(idx) * n) \div m>>]])

\* resample(sfreq) with sfreq = 1 / n_step
resample(o, n_step) ==
  LET o1 == _remove_kernel_sens_data_(o)
  IN IF o1.tstep = 0 THEN Raise(o1, "ZeroDivisionError")
     ELSE IF o1.tstep < 0 \/ n_step <= 0 THEN Raise(o1, "ValueError:resample")
     ELSE
       LET o2 == data_set(o1, filter_resample(o1.data, o1.tstep, n_step))
       IN IF o2.exc # "none" THEN o2 ELSE tstep_set(o2, n_step)

save(o, ftype) ==
  IF ftype # "h5" THEN Raise(o, "ValueError:ftype") ELSE data_get(o)

----------------------------------------------------------------------------
(* Inputs *)

Fills == {0, 1}

\* the array of shape sh whose entries follow pattern g
Filled(sh, g) ==
  ndarray(sh, [idx \in Indices(sh) |-> (g + SumSeq(idx)) % 3])

Lo(set, v) == [set |-> set, v |-> v]

DFT == <<"dipoles", "freqs", "times">>

DEFT == <<"dipoles", "epochs", "freqs", "times">>

\* one vertex array, or a list of two source spaces
VertInputs ==
  { [kind |-> "ndarray", v |-> <<<<0>>>>] }
  \cup { [kind |-> "list", v |-> <<<<0>>, [i \in 1..n |-> i - 1]>>]
         : n \in 1..(MaxVerts - 1) }

\* dense data (n_dipoles, 2 freqs, MaxTimes samples)
DenseInputs ==
  {[kind |-> "array", arr |-> Filled(<<v, 2, MaxTimes>>, 0)] : v \in 1..MaxVerts}

\* (kernel, sens_data) with kernel (n_dipoles, n_sensors) and sens_data
\* (n_sensors, 2 freqs, MaxTimes samples)
FactoredInputs ==
  {[kind |-> "tuple",
    items |-> <<Filled(<<v, s>>, 0), Filled(<<s2, 2, MaxTimes>>, 0)>>]
   : v \in 1..MaxVerts, s \in 1..MaxSens, s2 \in 1..MaxSens}

NewArgs ==
  [data : DenseInputs \cup FactoredInputs,
   vertices : VertInputs,
   tmin : {0},
   tstep : 1..MaxStep,
   dims : {DFT, DEFT},
   method : {"None"}]

\* values assigned to .data: one sample fewer than at construction, and one
\* array with an epochs axis
AssignInputs ==
  {Filled(<<v, 2, MaxTimes - 1>>, 1) : v \in 1..MaxVerts}
  \cup {Filled(<<1, 1, 2, MaxTimes>>, 1)}

\* the times crop is asked for
CropTimes == 0..MaxTmin

----------------------------------------------------------------------------
(* Actions on one SourceTFR *)

Commit(o) ==
  /\ alive' = o.alive
  /\ data' = o.data
  /\ kernel' = o.kernel
  /\ sens_data' = o.sens_data
  /\ kernel_removed' = o.kernel_removed
  /\ vertices' = o.vertices
  /\ dims' = o.dims
  /\ tmin' = o.tmin
  /\ tstep' = o.tstep
  /\ times' = o.times
  /\ exc' = o.exc
  /\ UNCHANGED <<args, curryVars, linesVars, chanVars>>

\* stfr = SourceTFR(...)
New ==
  /\ ~alive
  /\ exc = "none"
  /\ \E a \in NewArgs : Commit(SourceTFR_init(a))

\* stfr.data
DataGet == alive /\ Commit(data_get(Self))

\* stfr.data = value
DataSet == alive /\ \E value \in AssignInputs : Commit(data_set(Self, value))

\* stfr.shape
ShapeGet == alive /\ Commit(Self)

\* stfr.tmin = value
TminSet == alive /\ \E value \in 0..1 : Commit(tmin_set(Self, value))

\* stfr.tstep = value
TstepSet == alive /\ \E value \in 0..MaxStep : Commit(tstep_set(Self, value))

\* stfr.crop(tmin, tmax)
Crop ==
  /\ alive
  /\ \E ls, hs \in BOOLEAN, lv, hv \in CropTimes :
       /\ ls \/ lv = 0
       /\ hs \/ hv = 0
       /\ LET o == crop(Self, Lo(ls, lv), Lo(hs, hv))
          IN o.tmin <= MaxTmin /\ Commit(o)

\* stfr.resample(sfreq)
Resample ==
  /\ alive
  /\ \E n_step \in 1..MaxStep :
       /\ tstep > 0 => resample_len(Last(shape(Self)), tstep, n_step) <= MaxTimes
       /\ Commit(resample(Self, n_step))

\* stfr.save(fname, ftype)
Save == alive /\ \E ftype \in {"h5", "fif"} : Commit(save(Self, ftype))

\* stfr.copy(): the deep copy has the fields of the original
Copy == alive /\ Commit(Self)

NoStfr ==
  /\ alive = FALSE
  /\ data = None
  /\ kernel = None
  /\ sens_data = None
  /\ kernel_removed = FALSE
  /\ vertices = None
  /\ dims = <<>>
  /\ tmin = 0
  /\ tstep = 0
  /\ times = <<>>
  /\ exc = "none"

Init ==
  /\ NoStfr
  /\ args = None
  /\ NoCurry
  /\ NoLines
  /\ NoChans

Next ==
  \/ New
  \/ DataGet
  \/ DataSet
  \/ ShapeGet
  \/ TminSet
  \/ TstepSet
  \/ Crop
  \/ Resample
  \/ Save
  \/ Copy

Spec == Init /\ [][Next]_vars

----------------------------------------------------------------------------
(* The constructor on its own: every argument record of InitArgs is        *)
(* constructed, and the fresh object is read.                              *)

\* shapes with n axes: n_dipoles, then 2 or 3, then 1s, then the samples
InitShapes(n, maxLead) ==
  {<<v>> \o SubSeq(<<a, 1, 1>>, 1, n - 2) \o <<t>>
     : v \in 1..maxLead, a \in {2, OriLen}, t \in {1, MaxTimes}}

InitDense ==
  {[kind |-> "array", arr |-> Filled(sh, 0)]
     : sh \in UNION {InitShapes(n, MaxVerts) : n \in 2..5}}

InitFactored ==
  {[kind |-> "tuple", items |-> <<Filled(<<v, s>>, g), Filled(sh, 1)>>]
     : v \in 1..MaxVerts, s \in 1..MaxSens, g \in Fills,
       sh \in UNION {InitShapes(n, MaxSens) : n \in 2..5}}

\* a tuple that is no (kernel, sens_data) pair
InitTriple ==
  {[kind |-> "tuple",
    items |-> <<Filled(<<1, 1>>, 0), Filled(<<1, 2, 1>>, 0),
                Filled(<<1, 2, 1>>, 0)>>]}

InitVerts ==
  { [kind |-> "ndarray", v |-> <<w>>]
      : w \in {[i \in 1..n |-> i - 1] : n \in 1..MaxVerts} \cup {<<1, 0>>} }
  \cup { [kind |-> "list", v |-> <<<<0>>, [i \in 1..n |-> i - 1]>>]
         : n \in 1..MaxVerts }
  \cup { [kind |-> "list", v |-> <<<<0, 1>>>>],
         [kind |-> "list", v |-> <<<<1, 0>>>>],
         [kind |-> "list", v |-> <<<<0>>, <<1, 1>>>>],
         [kind |-> "int", v |-> <<<<0>>>>] }

InitArgs ==
  [data : InitDense \cup InitFactored \cup InitTriple,
   vertices : InitVerts,
   tmin : {0},
   tstep : 0..1,
   dims : valid_dims \cup {<<"dipoles", "times">>,
                           <<"freqs", "dipoles", "times">>},
   method : {"None", "morlet-power", "foo"}]

\* stfr = SourceTFR(**args)
Construct ==
  /\ ~alive
  /\ exc = "none"
  /\ Commit(SourceTFR_init(args))

InitI ==
  /\ NoStfr
  /\ args \in InitArgs
  /\ NoCurry
  /\ NoLines
  /\ NoChans

NextI ==
  \/ Construct
  \/ DataGet
  \/ ShapeGet

SpecInit == InitI /\ [][NextI]_vars

----------------------------------------------------------------------------
(* Claims about SourceTFR *)

IsFactored == kernel # None /\ sens_data # None /\ data = None

IsDense == data # None /\ kernel = None /\ sens_data = None

\* C1: in every reachable state of a constructed SourceTFR, times has the
\* length of the trailing axis of shape, and times[i] = tmin + tstep * i.
C1_TimesDerived ==
  alive =>
    /\ Len(times) = Last(shape(Self))
    /\ \A i \in 1..Len(times) : times[i] = tmin + tstep * (i - 1)

\* C2: a constructed SourceTFR is always either Factored (kernel and
\* sens_data set, data unset) or Dense (data set, kernel and sens_data
\* unset).
C2_OneRepresentation == alive => (IsFactored \/ IsDense)

\* C3 as stated: reading data, crop and resample each take a Factored
\* container to Dense, and a Dense container stays Dense.
C3_CropCollapses ==
  [][IsFactored /\ (DataGet \/ Crop \/ Resample) /\ exc' = "none"
       => IsDense']_vars

\* C3, amended: reading data and resample each take a Factored container to
\* Dense with kernel and sens_data discarded, crop leaves a Factored
\* container Factored, and a Dense container stays Dense under every
\* operation.
C3_OneWay ==
  /\ [][IsFactored /\ (DataGet \/ Resample) => IsDense' /\ kernel_removed']_vars
  /\ [][IsFactored /\ Crop => IsFactored']_vars
  /\ [][IsDense => IsDense']_vars

\* a container that was Factored and has collapsed
C3_Witness == alive /\ kernel_removed /\ IsDense /\ exc = "none"

\* C4: the leading axis length of a constructed SourceTFR equals the total
\* number of vertices.
C4_LeadingAxis == alive => shape(Self)[1] = n_verts(vertices)

----------------------------------------------------------------------------
(* Claims about the constructor, under SpecInit *)

\* the constructor has run
Attempted == alive \/ exc # "none"

NoFields ==
  /\ data = None
  /\ kernel = None
  /\ sens_data = None
  /\ vertices = None
  /\ times = <<>>

\* C5: a Factored container built from (kernel [V,S], sens_data [S,...]) has
\* shape (V,) + sens_data.shape[1:] before and after the collapse, its data
\* is the contraction over the shared axis element for element, and a Dense
\* container built from the contraction has the same shape and data.
C5_Contraction ==
  (alive /\ args.data.kind = "tuple") =>
    LET k == args.data.items[1]
        s == args.data.items[2]
        sh == <<k.shape[1]>> \o Tail(s.shape)
        twin == SourceTFR_init(
                  [args EXCEPT !.data = [kind |-> "array",
                                         arr |-> tensordot(k, s)]])
    IN /\ shape(Self) = sh
       /\ data # None =>
            /\ data.shape = sh
            /\ \A idx \in Indices(sh) :
                 data.val[idx] =
                   SumSeq([j \in 1..k.shape[2] |->
                             k.val[<<idx[1], j - 1>>]
                             * s.val[<<j - 1>> \o Tail(idx)]])
       /\ twin.exc = "none" =>
            /\ shape(twin) = shape(Self)
            /\ data # None => twin.data = data

\* a collapsed container whose kernel had two sensors or more
C5_Witness ==
  /\ alive
  /\ args.data.kind = "tuple"
  /\ kernel_removed
  /\ data # None
  /\ args.data.items[1].shape[2] >= 2
  /\ \E idx \in Indices(data.shape) : data.val[idx] >= 2

StrictlyIncreasing(v) == \A i, j \in 1..Len(v) : i < j => v[i] < v[j]

\* the checks C6 lists
C6_Listed(a) ==
  \/ a.dims \notin valid_dims
  \/ /\ a.data.kind = "tuple"
     /\ Len(a.data.items) = 2
     /\ \/ Last(a.data.items[1].shape) # Head(a.data.items[2].shape)
        \/ Len(a.data.items[2].shape) # Len(a.dims)
        \/ InSeq("orientations", a.dims)
  \/ /\ a.data.kind = "array"
     /\ \/ Len(a.data.arr.shape) # Len(a.dims)
        \/ \E i \in 1..Len(a.dims) :
             /\ a.dims[i] = "orientations"
             /\ i <= Len(a.data.arr.shape)
             /\ a.data.arr.shape[i] # 3

\* the checks of the constructor that C6 does not list
C6_Unlisted(a) ==
  \/ a.method \notin valid_methods
  \/ a.vertices.kind \notin {"list", "ndarray"}
  \/ a.data.kind = "tuple" /\ Len(a.data.items) # 2
  \/ /\ a.vertices.kind = "list"
     /\ \E i \in 1..Len(a.vertices.v) : ~StrictlyIncreasing(a.vertices.v[i])
  \/ /\ a.data.kind = "array"
     /\ Head(a.data.arr.shape)
          # SumSeq([i \in 1..Len(a.vertices.v) |-> Len(a.vertices.v[i])])

\* arguments of the documented types: an allowed method, vertices given as
\* an array or a list, data given as an array or a pair
C6_WellTyped(a) ==
  /\ a.method \in valid_methods
  /\ a.vertices.kind \in {"list", "ndarray"}
  /\ a.data.kind = "tuple" => Len(a.data.items) = 2

\* C6 as stated, for arguments of the documented types: construction raises,
\* and yields no object, exactly when one of the listed checks fails.
C6_ListedOnly ==
  (Attempted /\ C6_WellTyped(args)) =>
    /\ alive <=> ~C6_Listed(args)
    /\ ~alive => exc # "none" /\ NoFields

\* C6, amended: construction raises, and yields no object, whenever one of
\* the listed checks fails; it succeeds exactly when neither a listed check
\* nor the method, vertices type, tuple length, vertex order or dense vertex
\* count check fails.
C6_Construction ==
  Attempted =>
    /\ C6_Listed(args) => ~alive
    /\ alive <=> ~(C6_Listed(args) \/ C6_Unlisted(args))
    /\ ~alive => exc # "none" /\ NoFields

\* a construction that raised on a listed check, and one that succeeded
C6_Witness ==
  /\ Attempted
  /\ ~alive
  /\ C6_Listed(args)
  /\ ~C6_Unlisted(args)
  /\ args.dims \in valid_dims

\* C11: every vertex sequence a constructed SourceTFR holds is strictly
\* increasing, whether the vertices were given as one array or as a list of
\* arrays; construction rejects anything else.
C11_VerticesOrdered ==
  alive =>
    /\ \A i \in 1..Len(vertices.v) : StrictlyIncreasing(vertices.v[i])
    /\ \A i \in 1..Len(args.vertices.v) : StrictlyIncreasing(args.vertices.v[i])

\* C13: tstep is strictly positive in every state of a constructed
\* SourceTFR: neither construction nor an assignment to tstep nor resample
\* leaves the container with tstep <= 0.
C13_TstepPositive == alive => tstep > 0

\* the times of the samples sens_data holds
SampleTimes ==
  [i \in 1..Last(sens_data.shape) |-> tmin + tstep * (i - 1)]

\* C14: crop(tmin, tmax) on a Factored container slices the trailing axis
\* of sens_data to the samples whose times lie in [tmin, tmax]: the kernel
\* is unchanged, data stays unset, tmin becomes the time of the first
\* sample kept, and the data a later collapse yields is the crop of the
\* data the container would have collapsed to.
C14_FactoredCrop ==
  [][ IsFactored /\ Crop =>
        \E ls, hs \in BOOLEAN, lv, hv \in CropTimes :
          /\ ls \/ lv = 0
          /\ hs \/ hv = 0
          /\ LET mask == _time_mask(SampleTimes, Lo(ls, lv), Lo(hs, hv))
             IN IF Where(mask) = <<>>
                  THEN /\ exc' = "ValueError:mask"
                       /\ UNCHANGED <<kernel, sens_data, data, tmin>>
                  ELSE /\ exc' = "none"
                       /\ alive'
                       /\ kernel' = kernel
                       /\ data' = None
                       /\ sens_data' = MaskLast(sens_data, mask)
                       /\ tmin' = SampleTimes[Where(mask)[1]]
                       /\ tensordot(kernel', sens_data')
                            = MaskLast(tensordot(kernel, sens_data), mask)
    ]_vars

----------------------------------------------------------------------------
(* _read_curry_lines: the block parser of the label and event files.       *)
(*                                                                         *)
(* A line is a record [kind, pat, tabs]: a "start" or "end" line begins    *)
(* with pat + " START_LIST" or pat + " END_LIST", a "blank" line is "\n",  *)
(* a "text" line is anything else; tabs says whether it holds a tab.  The  *)
(* patterns are plain words none of which is a prefix of another, as the   *)
(* callers' are (LABELS_MAG1, LABELS, LABELS_OTHERS; NUMBER_LIST).         *)

\* most lines of a file
MaxLines == 4

\* regex_list, in order
regex_list == <<"LABELS", "SENSORS">>

Patterns == {regex_list[i] : i \in 1..Len(regex_list)}

Line(k, p, t) == [kind |-> k, pat |-> p, tabs |-> t]

LineInputs ==
  {Line(k, p, FALSE) : k \in {"start", "end"}, p \in Patterns}
    \cup {Line("blank", "", FALSE), Line("text", "", FALSE),
          Line("text", "", TRUE)}

\* re.match(regex + " END_LIST", line)
match_end(regex, line) == line.kind = "end" /\ line.pat = regex

\* re.match(regex + " START_LIST", line)
match_start(regex, line) == line.kind = "start" /\ line.pat = regex

\* line.replace("\n", ""), split at the tabs when there are any
Result(line) == [split |-> line.tabs, of |-> line]

\* the body of "for regex in regex_list" for one regex: the pair
\* <<save_lines[regex], data_dict[regex]>> after the line
line_step(regex, line, sv, dd) ==
  LET sv1 == IF match_end(regex, line) THEN FALSE ELSE sv
      dd1 == IF sv1 /\ line.kind # "blank"
               THEN Append(dd, Result(line)) ELSE dd
      sv2 == IF match_start(regex, line) THEN TRUE ELSE sv1
  IN <<sv2, dd1>>

\* _read_curry_lines before the first line
OpenLines ==
  /\ lines = <<>>
  /\ save_lines = [r \in Patterns |-> FALSE]
  /\ data_dict = [r \in Patterns |-> <<>>]

\* one iteration of "for line in fid"
ReadLine ==
  /\ Len(lines) < MaxLines
  /\ \E line \in LineInputs :
       /\ lines' = Append(lines, line)
       /\ save_lines' =
            [r \in Patterns |-> line_step(r, line, save_lines[r], data_dict[r])[1]]
       /\ data_dict' =
            [r \in Patterns |-> line_step(r, line, save_lines[r], data_dict[r])[2]]
  /\ UNCHANGED <<stfrVars, curryVars, chanVars>>

InitL ==
  /\ NoStfr
  /\ args = None
  /\ NoCurry
  /\ NoChans
  /\ OpenLines

NextL == ReadLine

SpecLines == InitL /\ [][NextL]_vars

----------------------------------------------------------------------------
(* Claims about _read_curry_lines *)

IsMarker(p, line) == match_start(p, line) \/ match_end(p, line)

\* line i lies strictly between a start marker of p and the end marker of
\* p that follows it (the end of the file if none follows)
InBlock(p, ls, i) ==
  /\ ~IsMarker(p, ls[i])
  /\ \E s \in 1..(i - 1) :
       /\ match_start(p, ls[s])
       /\ \A e \in (s + 1)..(i - 1) : ~match_end(p, ls[e])

RECURSIVE BlockLines(_, _, _)
\* the non-blank lines of the first n lines that lie in a block of p
BlockLines(p, ls, n) ==
  IF n = 0 THEN <<>>
  ELSE IF InBlock(p, ls, n) /\ ls[n].kind # "blank"
         THEN Append(BlockLines(p, ls, n - 1), Result(ls[n]))
         ELSE BlockLines(p, ls, n - 1)

\* C10: for every file and every pattern p the result for p is the ordered
\* list of the non-blank lines strictly between a "p START_LIST" line and
\* the following "p END_LIST" line (the end of the file if there is none);
\* no marker line of p is an entry of p's result.
C10_BlockLines ==
  \A p \in Patterns :
    /\ data_dict[p] = BlockLines(p, lines, Len(lines))
    /\ \A i \in 1..Len(data_dict[p]) : ~IsMarker(p, data_dict[p][i].of)

----------------------------------------------------------------------------
(* read_raw_curry, _check_missing_files and _read_curry_info.              *)
(*                                                                         *)
(* A file name is the tuple of its dot-separated segments.  A line of the  *)
(* parameter file is a record [key, eqs, val]: key is the text before the  *)
(* first "=", eqs the number of "=" signs and val the text after the last  *)
(* one, spaces and the newline removed.  A sample rate is a fraction       *)
(* [num, den] in Hz; offsets and time steps are kept in microseconds.      *)

\* most required parameters a parameter file leaves out
MaxMissing == 2

INFO_FILE_EXTENSION(v) == IF v = 7 THEN <<"dap">> ELSE <<"cdt", "dpa">>

LABEL_FILE_EXTENSION(v) == IF v = 7 THEN <<"rs3">> ELSE <<"cdt", "dpa">>

DATA_FILE_EXTENSION(v) == IF v = 7 THEN <<"dat">> ELSE <<"cdt">>

\* the keys of CHANTYPES, in order
CHANTYPES == <<"meg", "eeg", "misc">>

\* "DEVICE_PARAMETERS" + CHANTYPES[type] + " START"
DeviceMarker(type) ==
  CASE type = "meg" -> "DEVICE_PARAMETERS_MAG1 START"
    [] type = "eeg" -> "DEVICE_PARAMETERS START"
    [] type = "misc" -> "DEVICE_PARAMETERS_OTHERS START"

var_names == <<"NumSamples", "NumChannels", "NumTrials", "SampleFreqHz",
               "TriggerOffsetUsec", "DataFormat", "SampleTimeUsec",
               "NUM_SAMPLES", "NUM_CHANNELS", "NUM_TRIALS", "SAMPLE_FREQ_HZ",
               "TRIGGER_OFFSET_USEC", "DATA_FORMAT", "SAMPLE_TIME_USEC">>

\* var.lower() of var_names[:7]
lower_names == <<"numsamples", "numchannels", "numtrials", "samplefreqhz",
                 "triggeroffsetusec", "dataformat", "sampletimeusec">>

NRequired == Len(lower_names)

\* "var_name in line", for the keys of the model
names_in(key) ==
  {var_names[i] : i \in {j \in 1..Len(var_names) : var_names[j] = key}}
    \cup (IF key = "NUM_CHANNELS_" THEN {"NUM_CHANNELS"} ELSE {})
    \cup (IF key = "NumChannelsTotal" THEN {"NumChannels"} ELSE {})

\* key.lower().replace("_", ""), for the keys of the model
normalise(key) ==
  IF \E i \in 1..Len(var_names) : var_names[i] = key
    THEN lower_names[(((CHOOSE i \in 1..Len(var_names) : var_names[i] = key) - 1)
                        % NRequired) + 1]
    ELSE CASE key = "NUM_CHANNELS_" -> "numchannels"
           [] key = "Num_Channels" -> "numchannels"
           [] key = "NumChannelsTotal" -> "numchannelstotal"
           [] key = "DataUnit" -> "dataunit"
           [] OTHER -> "other"

\* the types whose marker the line holds
marker_types(line) == {t \in {"meg", "eeg", "misc"} : line.key = DeviceMarker(t)}

\* int(val) and float(val) accept the digit strings of the model
Numbers == [n \in {"0", "1", "2", "5", "100", "4000", "10000"} |->
              CASE n = "0" -> 0 [] n = "1" -> 1 [] n = "2" -> 2 [] n = "5" -> 5
                [] n = "100" -> 100 [] n = "4000" -> 4000 [] n = "10000" -> 10000]

IsNumber(val) == val \in DOMAIN Numbers

Frac(n, d) == [num |-> n, den |-> d]

\* the microseconds of a second
UsecPerSec == 1000000

Exception(t, a, f, b, v) ==
  [type |-> t, at |-> a, file |-> f, beside |-> b, var |-> v]

\* _get_curry_version
_get_curry_version(ext) ==
  IF \E i \in 1..Len(ext) : ext[i] = "cdt" THEN 8 ELSE 7

\* a check that leaves the label file of generation 7 out
check_exts_no_rs3(curry_vers) ==
  IF curry_vers = 8 THEN << <<"cdt">>, <<"cdt", "dpa">> >>
  ELSE << <<"dap">>, <<"dat">> >>

\* the extensions _check_missing_files looks for, in order
check_exts(curry_vers) ==
  IF curry_vers = 8 THEN << <<"cdt">>, <<"cdt", "dpa">> >>
  ELSE << <<"dap">>, <<"dat">>, <<"rs3">> >>

\* _check_missing_files: the exception it raises, NoException if none
_check_missing_files(full_fname, fname_base, curry_vers) ==
  LET exts == check_exts(curry_vers)
      gone == {i \in 1..Len(exts) : <<fname_base>> \o exts[i] \notin exists}
  IN IF gone = {} THEN NoException
     ELSE LET i == CHOOSE j \in gone : \A k \in gone : j <= k
          IN Exception("FileNotFoundError", "check",
                       <<fname_base>> \o exts[i], full_fname, "")

\* a required-parameter loop that stops one name short
first_missing_of_six(pd) ==
  LET gone == {i \in 1..(NRequired - 1) : lower_names[i] \notin DOMAIN pd}
  IN IF gone = {} THEN 0 ELSE CHOOSE j \in gone : \A k \in gone : j <= k

\* the first of var_names[:7] whose lower-case form is no key of param_dict,
\* 0 if there is none
first_missing(pd) ==
  LET gone == {i \in 1..NRequired : lower_names[i] \notin DOMAIN pd}
  IN IF gone = {} THEN 0 ELSE CHOOSE j \in gone : \A k \in gone : j <= k

\* a derivation that never happens
never_derive(sfreq, time_step) == sfreq

\* "if (sfreq == 0) and (time_step != 0): sfreq = 1. / time_step"
derive_sfreq(sfreq, time_step) ==
  IF sfreq.num = 0 /\ time_step # 0 THEN Frac(UsecPerSec, time_step)
  ELSE sfreq

\* the first of the keys, in order, that int() or float() rejects or that
\* param_dict does not hold; 0 if there is none
first_bad(pd, keys) ==
  LET bad == {i \in 1..Len(keys) :
                keys[i] \notin DOMAIN pd \/ ~IsNumber(pd[keys[i]])}
  IN IF bad = {} THEN 0 ELSE CHOOSE j \in bad : \A k \in bad : j <= k

\* the keys converted to numbers, in the order of the conversions
converted == <<"numsamples", "numtrials", "samplefreqhz",
               "triggeroffsetusec", "sampletimeusec">>

\* _read_curry_info from the required-parameter loop to the derivation of
\* the sample rate: [exc, locals]
convert(pd) ==
  LET m == first_missing(pd)
      b == first_bad(pd, converted)
  IN IF m # 0
       THEN [exc |-> Exception("KeyError", "required", <<>>, <<>>, var_names[m]),
             locals |-> None]
     ELSE IF b # 0
       THEN [exc |-> IF converted[b] \in DOMAIN pd
                       THEN Exception("ValueError", "convert", <<>>, <<>>,
                                      converted[b])
                       ELSE Exception("KeyError", "convert", <<>>, <<>>,
                                      converted[b]),
             locals |-> None]
     ELSE IF "dataformat" \notin DOMAIN pd
       THEN [exc |-> Exception("KeyError", "convert", <<>>, <<>>, "dataformat"),
             locals |-> None]
     ELSE [exc |-> NoException,
           locals |->
             [tag |-> "locals",
              n_samples |-> Numbers[pd["numsamples"]],
              n_trials |-> Numbers[pd["numtrials"]],
              sfreq |-> derive_sfreq(Frac(Numbers[pd["samplefreqhz"]], 1),
                                     Numbers[pd["sampletimeusec"]]),
              offset_usec |-> Numbers[pd["triggeroffsetusec"]],
              time_step_usec |-> Numbers[pd["sampletimeusec"]],
              data_format |-> pd["dataformat"]]]

\* d[k] = v
SetItem(d, k, v) == [x \in DOMAIN d \cup {k} |-> IF x = k THEN v ELSE d[x]]

\* data_unit.replace(" ", "").replace("\n", "").split("=")[-1]
unit_of(line) == IF line.eqs = 0 THEN line.key ELSE line.val

\* input_fname.split(".", maxsplit=1)
fname_base == input_fname[1]

ext == Tail(input_fname)

curry_vers == _get_curry_version(ext)

Fail(e) ==
  /\ cpc' = "done"
  /\ cexc' = e

\* read_raw_curry up to the end of _check_missing_files
Check ==
  /\ cpc = "start"
  /\ IF Len(input_fname) < 2
       THEN Fail(Exception("ValueError", "split", <<>>, <<>>, ""))
     ELSE LET e == _check_missing_files(input_fname, fname_base, curry_vers)
          IN IF e # NoException THEN Fail(e)
             ELSE cpc' = "info" /\ UNCHANGED cexc
  /\ UNCHANGED <<input_fname, exists, pfile, opened, pos, param_dict,
                 unit_dict, locals, cinfo, raw>>
  /\ UNCHANGED <<stfrVars, linesVars, chanVars>>

\* open(fname_base + INFO_FILE_EXTENSION[curry_vers])
OpenInfo ==
  /\ cpc = "info"
  /\ LET f == <<fname_base>> \o INFO_FILE_EXTENSION(curry_vers)
     IN IF f \in exists
          THEN /\ opened' = Append(opened, f)
               /\ pos' = 1
               /\ cpc' = "scan"
               /\ UNCHANGED cexc
          ELSE /\ Fail(Exception("FileNotFoundError", "open", f, <<>>, ""))
               /\ UNCHANGED <<opened, pos>>
  /\ UNCHANGED <<input_fname, exists, pfile, param_dict, unit_dict, locals,
                 cinfo, raw>>
  /\ UNCHANGED <<stfrVars, linesVars, chanVars>>

\* one iteration of "for line in iter(fid)"
ScanLine ==
  /\ cpc = "scan"
  /\ pos <= Len(pfile)
  /\ LET line == pfile[pos]
         named == names_in(line.key) # {}
         types == marker_types(line)
     IN IF named /\ line.eqs # 1
          THEN /\ Fail(Exception("ValueError", "scan", <<>>, <<>>, line.key))
               /\ UNCHANGED <<pos, param_dict, unit_dict>>
        ELSE IF types # {} /\ pos = Len(pfile)
          THEN /\ Fail(Exception("StopIteration", "scan", <<>>, <<>>, line.key))
               /\ param_dict' = IF named
                                  THEN SetItem(param_dict, normalise(line.key), line.val)
                                  ELSE param_dict
               /\ UNCHANGED <<pos, unit_dict>>
        ELSE /\ param_dict' = IF named
                                THEN SetItem(param_dict, normalise(line.key), line.val)
                                ELSE param_dict
             /\ unit_dict' = IF types # {}
                               THEN [t \in DOMAIN unit_dict \cup types |->
                                       IF t \in types THEN unit_of(pfile[pos + 1])
                                       ELSE unit_dict[t]]
                               ELSE unit_dict
             /\ pos' = IF types # {} THEN pos + 2 ELSE pos + 1
             /\ UNCHANGED <<cpc, cexc>>
  /\ UNCHANGED <<input_fname, exists, pfile, opened, locals, cinfo, raw>>
  /\ UNCHANGED <<stfrVars, linesVars, chanVars>>

\* _read_curry_info from the end of the scan to the derived sample rate
FinishScan ==
  /\ cpc = "scan"
  /\ pos > Len(pfile)
  /\ LET r == convert(param_dict)
     IN /\ locals' = r.locals
        /\ IF r.exc # NoException THEN Fail(r.exc)
           ELSE cpc' = "labels" /\ UNCHANGED cexc
  /\ UNCHANGED <<input_fname, exists, pfile, opened, pos, param_dict,
                 unit_dict, cinfo, raw>>
  /\ UNCHANGED <<stfrVars, linesVars, chanVars>>

\* the rest of _read_curry_info: the label file is read twice and the
\* channels are assembled; whether that succeeds depends on the label file
\* and on create_info
ReadLabels ==
  /\ cpc = "labels"
  /\ LET f == <<fname_base>> \o LABEL_FILE_EXTENSION(curry_vers)
     IN IF f \notin exists
          THEN /\ Fail(Exception("FileNotFoundError", "open", f, <<>>, ""))
               /\ UNCHANGED <<opened, cinfo>>
        ELSE /\ opened' = opened \o <<f, f>>
             /\ \E ok \in BOOLEAN :
                  IF ok
                    THEN /\ cinfo' = [tag |-> "info",
                                      sfreq |-> locals.sfreq,
                                      n_trials |-> locals.n_trials,
                                      n_samples |-> locals.n_samples,
                                      curry_vers |-> curry_vers,
                                      data_format |-> locals.data_format]
                         /\ cpc' = "raw"
                         /\ UNCHANGED cexc
                    ELSE /\ Fail(Exception("Error", "labels", f, <<>>, ""))
                         /\ UNCHANGED cinfo
  /\ UNCHANGED <<input_fname, exists, pfile, pos, param_dict, unit_dict,
                 locals, raw>>
  /\ UNCHANGED <<stfrVars, linesVars, chanVars>>

\* RawCurry(fname_base + DATA_FILE_EXTENSION[curry_vers], info, n_samples,
\*          data_format, preload)
MakeRaw ==
  /\ cpc = "raw"
  /\ LET f == <<fname_base>> \o DATA_FILE_EXTENSION(curry_vers)
     IN /\ raw' = [tag |-> "RawCurry", data_fname |-> f, info |-> cinfo,
                   last_samps |-> <<cinfo.n_samples - 1>>]
        /\ opened' = IF cinfo.data_format = "ASCII" THEN Append(opened, f)
                     ELSE opened
  /\ cpc' = "done"
  /\ UNCHANGED <<input_fname, exists, pfile, pos, param_dict, unit_dict,
                 locals, cinfo, cexc>>
  /\ UNCHANGED <<stfrVars, linesVars, chanVars>>

\* a line "key = val"
KV(k, v) == [key |-> k, eqs |-> 1, val |-> v]

\* a line with n "=" signs
Raw(k, n, v) == [key |-> k, eqs |-> n, val |-> v]

\* the value a parameter file gives to the i-th required parameter
ValueOf(i, sf, ts) ==
  CASE i = 1 -> "5" [] i = 2 -> "2" [] i = 3 -> "1" [] i = 4 -> sf
    [] i = 5 -> "0" [] i = 6 -> "ASCII" [] i = 7 -> ts

\* the spelling of the i-th required parameter: all in the first spelling,
\* all in the second, or alternating
Spelling(mode, i) ==
  CASE mode = "first" -> var_names[i]
    [] mode = "second" -> var_names[i + NRequired]
    [] mode = "mixed" -> IF i % 2 = 1 THEN var_names[i]
                         ELSE var_names[i + NRequired]

RECURSIVE ParamLines(_, _, _, _, _)
\* the lines of the first n required parameters, those of M left out
ParamLines(mode, M, sf, ts, n) ==
  IF n = 0 THEN <<>>
  ELSE IF n \in M THEN ParamLines(mode, M, sf, ts, n - 1)
  ELSE Append(ParamLines(mode, M, sf, ts, n - 1),
              KV(Spelling(mode, n), ValueOf(n, sf, ts)))

\* what else a parameter file holds: lines before and lines after
Extras ==
  { [before |-> <<>>, after |-> <<>>],
    [before |-> <<>>, after |-> <<KV("NUM_CHANNELS_", "2")>>],
    [before |-> <<>>, after |-> <<KV("Num_Channels", "2")>>],
    [before |-> <<>>, after |-> <<KV("NumChannelsTotal", "2")>>],
    [before |-> <<>>, after |-> <<Raw("NumTrials", 2, "1")>>],
    [before |-> <<>>, after |-> <<Raw("NumTrials", 0, "")>>],
    [before |-> <<>>, after |-> <<KV("NumTrials", "abc")>>],
    [before |-> <<>>,
     after |-> <<Raw(DeviceMarker("eeg"), 0, ""), KV("DataUnit", "uV")>>],
    [before |-> <<>>, after |-> <<Raw(DeviceMarker("meg"), 0, "")>>],
    [before |-> <<Raw(DeviceMarker("eeg"), 0, "")>>, after |-> <<>>],
    [before |-> <<Raw("comment", 0, "")>>, after |-> <<>>] }

ParamFiles ==
  { x.before \o ParamLines(mode, M, sf, ts, NRequired) \o x.after :
      mode \in {"first", "second", "mixed"},
      M \in {m \in SUBSET (1..NRequired) : Cardinality(m) <= MaxMissing},
      sf \in {"0", "100"}, ts \in {"0", "4000", "10000"}, x \in Extras }

\* a complete parameter file
DefaultFile == ParamLines("first", {}, "100", "10000", NRequired)

AllFiles ==
  { <<"rec", "cdt">>, <<"rec", "cdt", "dpa">>, <<"rec", "dap">>,
    <<"rec", "dat">>, <<"rec", "rs3">> }

FnameInputs ==
  { <<"rec", "dat">>, <<"rec", "dap">>, <<"rec", "rs3">>, <<"rec", "cdt">>,
    <<"rec", "cdt", "dpa">>, <<"rec", "cdt", "cef">>, <<"rec", "v2", "dat">>,
    <<"rec">> }

\* read_raw_curry(input_fname) is called
InitC ==
  /\ NoStfr
  /\ args = None
  /\ NoLines
  /\ NoChans
  /\ cpc = "start"
  /\ \/ /\ input_fname \in FnameInputs
        /\ exists \in {e \in SUBSET AllFiles : Cardinality(AllFiles \ e) <= 2}
        /\ pfile = DefaultFile
     \/ /\ input_fname \in {<<"rec", "dat">>, <<"rec", "cdt">>}
        /\ exists = AllFiles
        /\ pfile \in ParamFiles
  /\ opened = <<>>
  /\ pos = 0
  /\ param_dict = EmptyDict
  /\ unit_dict = EmptyDict
  /\ locals = None
  /\ cinfo = None
  /\ raw = None
  /\ cexc = NoException

NextC ==
  \/ Check
  \/ OpenInfo
  \/ ScanLine
  \/ FinishScan
  \/ ReadLabels
  \/ MakeRaw

SpecCurry == InitC /\ [][NextC]_vars

----------------------------------------------------------------------------
(* Claims about read_raw_curry and _read_curry_info *)

\* the parameter file has a line whose key is the i-th required parameter
\* in one of its two spellings
InFile(i) ==
  \E k \in 1..Len(pfile) :
    pfile[k].key \in {var_names[i], var_names[i + NRequired]}

\* every line of the parameter file is "name = value" with one of the
\* fourteen names, and the values that are converted are numbers
PlainFile ==
  \A k \in 1..Len(pfile) :
    /\ pfile[k].eqs = 1
    /\ \E i \in 1..Len(var_names) : pfile[k].key = var_names[i]
    /\ pfile[k].key \notin {var_names[6], var_names[6 + NRequired]}
         => IsNumber(pfile[k].val)

\* the value the parameter file gives to the i-th required parameter
FileValue(i) ==
  pfile[CHOOSE k \in 1..Len(pfile) :
          /\ pfile[k].key \in {var_names[i], var_names[i + NRequired]}
          /\ \A j \in (k + 1)..Len(pfile) :
               pfile[j].key \notin {var_names[i], var_names[i + NRequired]}].val

\* the scan of the parameter file has come to its end
ScanDone ==
  /\ cpc \in {"labels", "raw", "done"}
  /\ opened # <<>>
  /\ cexc.at # "scan"

\* the parameter stage has handed on its values
ParamStagePassed == cpc \in {"labels", "raw"} \/ locals # None

\* C7 as stated: a parameter file with no sample-frequency key in either
\* spelling, the other six required keys and a nonzero SampleTimeUsec = t
\* is parsed and yields the sample rate 1e6 / t Hz.
C7_DerivedWhenAbsent ==
  ( /\ ScanDone
    /\ PlainFile
    /\ ~InFile(4)
    /\ \A i \in (1..NRequired) \ {4} : InFile(i)
    /\ FileValue(7) # "0" )
  => /\ locals # None
     /\ locals.sfreq = Frac(UsecPerSec, Numbers[FileValue(7)])

\* C7: with a sample-frequency key of value 0 and a nonzero
\* SampleTimeUsec = t the parameter stage yields the sample rate 1e6 / t Hz
\* (100 Hz for t = 10000), and the metadata carry that rate; with a nonzero
\* sample-frequency key the rate is the one given; with no sample-frequency
\* key and the other six present the stage fails with the missing-variable
\* error naming SampleFreqHz and yields nothing.
C7_DerivedWhenZero ==
  /\ ( /\ ScanDone
       /\ PlainFile
       /\ \A i \in 1..NRequired : InFile(i) )
     => /\ locals # None
        /\ LET t == Numbers[FileValue(7)]
               f == Numbers[FileValue(4)]
           IN /\ f = 0 /\ t # 0 => locals.sfreq.num = UsecPerSec
                                    /\ locals.sfreq.den = t
              /\ f = 0 /\ t = 10000 => locals.sfreq.num = 100 * locals.sfreq.den
              /\ f # 0 \/ t = 0 => locals.sfreq = Frac(f, 1)
  /\ ( /\ ScanDone
       /\ PlainFile
       /\ ~InFile(4)
       /\ \A i \in (1..NRequired) \ {4} : InFile(i) )
     => /\ cexc.type = "KeyError"
        /\ cexc.var = "SampleFreqHz"
        /\ locals = None
        /\ cinfo = None
        /\ raw = None
  /\ cinfo # None => cinfo.sfreq = locals.sfreq

C7_Witness ==
  /\ cinfo # None
  /\ PlainFile
  /\ FileValue(4) = "0"
  /\ FileValue(7) = "10000"
  /\ cinfo.sfreq = Frac(UsecPerSec, 10000)

\* the files _check_missing_files requires and the disk does not hold
Absent ==
  LET exts == check_exts(curry_vers)
  IN {<<fname_base>> \o exts[i] : i \in 1..Len(exts)} \ exists

\* the parameter and label files of the generation
ParsedFiles ==
  { <<fname_base>> \o INFO_FILE_EXTENSION(curry_vers),
    <<fname_base>> \o LABEL_FILE_EXTENSION(curry_vers) }

NothingParsed ==
  /\ opened = <<>>
  /\ pos = 0
  /\ param_dict = EmptyDict
  /\ unit_dict = EmptyDict
  /\ locals = None
  /\ cinfo = None
  /\ raw = None

\* C8: for an input name with an extension, read_raw_curry checks every
\* companion file of the detected generation (8: .cdt, .cdt.dpa; 7: .dap,
\* .dat, .rs3) before it opens any file; if one is absent it raises
\* FileNotFoundError naming the first absent file and the input file, and
\* nothing is opened, parsed or produced.
C8_Preflight ==
  Len(input_fname) >= 2 =>
    /\ curry_vers = 8 =>
         /\ Absent = {<<fname_base, "cdt">>, <<fname_base, "cdt", "dpa">>} \ exists
         /\ ParsedFiles = {<<fname_base, "cdt", "dpa">>}
    /\ curry_vers = 7 =>
         /\ Absent = {<<fname_base, "dap">>, <<fname_base, "dat">>,
                      <<fname_base, "rs3">>} \ exists
         /\ ParsedFiles = {<<fname_base, "dap">>, <<fname_base, "rs3">>}
    /\ opened # <<>> \/ pos # 0 \/ param_dict # EmptyDict \/ cinfo # None
         \/ raw # None => Absent = {}
    /\ cpc # "start" /\ Absent # {} =>
         /\ cpc = "done"
         /\ cexc.type = "FileNotFoundError"
         /\ cexc.file \in Absent
         /\ cexc.beside = input_fname
         /\ NothingParsed

C8_Witness ==
  /\ cpc = "done"
  /\ curry_vers = 7
  /\ Absent = {<<fname_base, "rs3">>}
  /\ cexc.type = "FileNotFoundError"
  /\ cexc.file = <<fname_base, "rs3">>
  /\ NothingParsed

\* the lines the scan loop visits from line k on: the line after a marker
\* line is consumed as its unit
RECURSIVE Visited(_)
Visited(k) ==
  IF k > Len(pfile) THEN {}
  ELSE {k} \cup Visited(IF marker_types(pfile[k]) # {} THEN k + 2 ELSE k + 1)

\* the required parameters the scan records: a visited line holds one of
\* the fourteen names and its key, lower-cased and without underscores, is
\* the parameter's name
Recorded ==
  {i \in 1..NRequired :
     \E k \in Visited(1) : /\ names_in(pfile[k].key) # {}
                           /\ normalise(pfile[k].key) = lower_names[i]}

LeastOf(S) == CHOOSE j \in S : \A k \in S : j <= k

\* C9 as stated: the parameter stage succeeds only if each of the seven
\* required parameters is in the file in one of its two spellings, and
\* fails naming the first one that is not.
C9_AcceptedSpellings ==
  /\ ParamStagePassed => \A i \in 1..NRequired : InFile(i)
  /\ ScanDone /\ (\E i \in 1..NRequired : ~InFile(i)) =>
       /\ cexc.type = "KeyError"
       /\ cexc.var = var_names[LeastOf({i \in 1..NRequired : ~InFile(i)})]

\* C9: the parameter stage succeeds only if the scan has recorded all seven
\* required parameters; if the scan ends with any of them unrecorded the
\* stage raises KeyError naming the first unrecorded one in the order
\* NumSamples, NumChannels, NumTrials, SampleFreqHz, TriggerOffsetUsec,
\* DataFormat, SampleTimeUsec, and returns no metadata.
C9_Required ==
  /\ ParamStagePassed => Recorded = 1..NRequired
  /\ ScanDone =>
       /\ {i \in 1..NRequired : lower_names[i] \in DOMAIN param_dict} = Recorded
       /\ Recorded # 1..NRequired =>
            /\ cpc = "done"
            /\ cexc.type = "KeyError"
            /\ cexc.var = var_names[LeastOf((1..NRequired) \ Recorded)]
            /\ locals = None
            /\ cinfo = None
            /\ raw = None

C9_Witness ==
  /\ ScanDone
  /\ Cardinality((1..NRequired) \ Recorded) = 2
  /\ 3 \in Recorded
  /\ ~InFile(5)
  /\ cexc.type = "KeyError"
  /\ cexc.var = "TriggerOffsetUsec"

----------------------------------------------------------------------------
(* _read_curry_info, the channel assembly: the label file is read for the  *)
(* LABELS and for the SENSORS patterns and one channel is built per label. *)
(*                                                                         *)
(* A line of the label file is a line of _read_curry_lines with one more   *)
(* field, text: what the line says (<<>> for a marker or a blank line).    *)

\* most label entries of one category
MaxLabels == 3

assembly_keys_swapped == <<"eeg", "meg", "misc">>

\* for key in ["meg", "eeg", "misc"]
assembly_keys == <<"meg", "eeg", "misc">>

\* "LABELS" + CHANTYPES[key]
LabelsPattern(key) ==
  CASE key = "meg" -> "LABELS_MAG1"
    [] key = "eeg" -> "LABELS"
    [] key = "misc" -> "LABELS_OTHERS"

\* "SENSORS" + CHANTYPES[key]
SensorsPattern(key) ==
  CASE key = "meg" -> "SENSORS_MAG1"
    [] key = "eeg" -> "SENSORS"
    [] key = "misc" -> "SENSORS_OTHERS"

FIFFV_CHANTYPES(key) ==
  CASE key = "meg" -> "FIFFV_MEG_CH"
    [] key = "eeg" -> "FIFFV_EEG_CH"
    [] key = "misc" -> "FIFFV_MISC_CH"

RECURSIVE ReadState(_, _, _)
\* <<save_lines[regex], data_dict[regex]>> after the first n lines
ReadState(file, regex, n) ==
  IF n = 0 THEN <<FALSE, <<>>>>
  ELSE LET prev == ReadState(file, regex, n - 1)
       IN line_step(regex, file[n], prev[1], prev[2])

\* _read_curry_lines(fname, regex_list): the data_dict returned
_read_curry_lines(file, regexes) ==
  [r \in regexes |-> ReadState(file, r, Len(file))[2]]

\* np.array(loc, dtype=float)
Loc(entry) == [tag |-> "loc", row |-> entry.of.text, split |-> entry.split]

\* what create_info leaves in a field the assembly does not set
Default == [tag |-> "default"]

\* all_chans.append(ch)
Chan(key, chan, unit, loc) ==
  [ch_name |-> chan, unit |-> unit, kind |-> FIFFV_CHANTYPES(key), loc |-> loc]

\* info["chs"][ind] after the loop over info["chs"]
FinalChan(ch) ==
  [ch_name |-> ch.ch_name,
   kind |-> ch.kind,
   loc |-> IF ch.kind \in {"FIFFV_MEG_CH", "FIFFV_EEG_CH"} THEN ch.loc
           ELSE Default,
   unit |-> CASE ch.unit = "uV" -> "FIFF_UNIT_V"
              [] ch.unit = "fT" -> "FIFF_UNIT_T"
              [] OTHER -> "default",
   cal |-> CASE ch.unit = "uV" -> "1e-6"
             [] ch.unit = "fT" -> "1e-15"
             [] OTHER -> "default"]

\* labels and sensors are read from the label file
ReadLabelFile ==
  /\ apc = "read"
  /\ labels' = _read_curry_lines(label_file,
                 {LabelsPattern(k) : k \in {"meg", "eeg", "misc"}})
  /\ sensors' = _read_curry_lines(label_file,
                  {SensorsPattern(k) : k \in {"meg", "eeg", "misc"}})
  /\ apc' = "loop"
  /\ akey' = 1
  /\ aind' = 0
  /\ UNCHANGED <<label_file, all_chans, chs, aexc>>
  /\ UNCHANGED <<stfrVars, curryVars, linesVars>>

\* one iteration of "for ind, chan in enumerate(labels[...])"
AddChan ==
  /\ apc = "loop"
  /\ akey <= Len(assembly_keys)
  /\ LET key == assembly_keys[akey]
         entries == labels[LabelsPattern(key)]
         rows == sensors[SensorsPattern(key)]
     IN /\ aind < Len(entries)
        /\ IF key \notin DOMAIN unit_dict
             THEN /\ aexc' = "KeyError:unit_dict"
                  /\ apc' = "done"
                  /\ UNCHANGED <<aind, all_chans>>
           ELSE IF key \in {"meg", "eeg"} /\ aind >= Len(rows)
             THEN /\ aexc' = "IndexError:sensors"
                  /\ apc' = "done"
                  /\ UNCHANGED <<aind, all_chans>>
           ELSE /\ all_chans' =
                     Append(all_chans,
                            Chan(key, entries[aind + 1], unit_dict[key],
                                 IF key \in {"meg", "eeg"}
                                   THEN Loc(rows[aind + 1]) ELSE None))
                /\ aind' = aind + 1
                /\ UNCHANGED <<apc, aexc>>
  /\ UNCHANGED <<label_file, labels, sensors, akey, chs>>
  /\ UNCHANGED <<stfrVars, curryVars, linesVars>>

\* "for key in ..." moves on to the next key
NextKey ==
  /\ apc = "loop"
  /\ akey <= Len(assembly_keys)
  /\ aind >= Len(labels[LabelsPattern(assembly_keys[akey])])
  /\ akey' = akey + 1
  /\ aind' = 0
  /\ UNCHANGED <<apc, label_file, labels, sensors, all_chans, chs, aexc>>
  /\ UNCHANGED <<stfrVars, curryVars, linesVars>>

\* create_info(ch_names, sfreq) and the loop over info["chs"]; create_info
\* returns one entry per name, in order, or raises
CreateInfo ==
  /\ apc = "loop"
  /\ akey > Len(assembly_keys)
  /\ \E ok \in BOOLEAN :
       IF ok THEN /\ chs' = [i \in 1..Len(all_chans) |-> FinalChan(all_chans[i])]
                  /\ UNCHANGED aexc
       ELSE /\ aexc' = "Error:create_info"
            /\ UNCHANGED chs
  /\ apc' = "done"
  /\ UNCHANGED <<label_file, labels, sensors, akey, aind, all_chans>>
  /\ UNCHANGED <<stfrVars, curryVars, linesVars>>

\* a line of the label file
LabelLine(k, p, t, x) == [kind |-> k, pat |-> p, tabs |-> t, text |-> x]

\* a block: its start line, a blank line, its entries, its end line
Block(p, entries) ==
  <<LabelLine("start", p, FALSE, <<>>), LabelLine("blank", "", FALSE, <<>>)>>
    \o entries \o <<LabelLine("end", p, FALSE, <<>>)>>

\* n channel names of a category
NameLines(key, n) == [i \in 1..n |-> LabelLine("text", "", FALSE, <<key, i>>)]

\* m sensor positions of a category, tab-separated
PosLines(key, m) ==
  [i \in 1..m |-> LabelLine("text", "", TRUE, <<"pos", key, i>>)]

\* the blocks of one category: n labels and m sensor positions, a block
\* being left out when it has no entry
KeyBlocks(key, n, m) ==
  (IF n = 0 THEN <<>> ELSE Block(LabelsPattern(key), NameLines(key, n)))
    \o (IF m = 0 THEN <<>> ELSE Block(SensorsPattern(key), PosLines(key, m)))

\* the orders in which a label file holds the categories
FileOrders == {<<"meg", "eeg", "misc">>, <<"misc", "eeg", "meg">>}

LabelFiles ==
  { KeyBlocks(ord[1], n[ord[1]], m[ord[1]])
      \o KeyBlocks(ord[2], n[ord[2]], m[ord[2]])
      \o KeyBlocks(ord[3], n[ord[3]], m[ord[3]]) :
      ord \in FileOrders,
      n \in [{"meg", "eeg", "misc"} -> 0..MaxLabels],
      m \in {f \in [{"meg", "eeg", "misc"} -> 0..MaxLabels] :
               /\ f["misc"] = 0
               /\ f["eeg"] \in {0, MaxLabels}} }

\* the units the parameter file gave
UnitDicts ==
  { [t \in S |-> CASE t = "meg" -> "fT" [] t = "eeg" -> "uV" [] t = "misc" -> "mV"]
      : S \in SUBSET {"meg", "eeg", "misc"} }

\* _read_curry_info has read the parameter file
InitA ==
  /\ NoStfr
  /\ args = None
  /\ NoLines
  /\ cpc = "idle"
  /\ input_fname = <<>>
  /\ exists = {}
  /\ pfile = <<>>
  /\ opened = <<>>
  /\ pos = 0
  /\ param_dict = EmptyDict
  /\ unit_dict \in UnitDicts
  /\ locals = None
  /\ cinfo = None
  /\ raw = None
  /\ cexc = NoException
  /\ apc = "read"
  /\ label_file \in LabelFiles
  /\ labels = EmptyDict
  /\ sensors = EmptyDict
  /\ akey = 0
  /\ aind = 0
  /\ all_chans = <<>>
  /\ chs = <<>>
  /\ aexc = "none"

NextA ==
  \/ ReadLabelFile
  \/ AddChan
  \/ NextKey
  \/ CreateInfo

SpecChans == InitA /\ [][NextA]_vars

----------------------------------------------------------------------------
(* Claims about the channel assembly *)

\* the label entries of a category, as the label file holds them
LabelEntries(key) ==
  BlockLines(LabelsPattern(key), label_file, Len(label_file))

\* the sensor positions of a category, as the label file holds them
SensorEntries(key) ==
  BlockLines(SensorsPattern(key), label_file, Len(label_file))

\* the category and the ordinal index of the i-th label entry when the
\* categories follow each other as magnetic, electric, other
Place(i) ==
  LET nm == Len(LabelEntries("meg"))
      ne == Len(LabelEntries("eeg"))
  IN IF i <= nm THEN [key |-> "meg", ind |-> i]
     ELSE IF i <= nm + ne THEN [key |-> "eeg", ind |-> i - nm]
     ELSE [key |-> "misc", ind |-> i - nm - ne]

====
